---- MODULE Spec2Model ----
(***************************************************************************)
(* A model of src/src/components/NetworkGraph.jsx: the dataset loader      *)
(* (loadCSVData), the faction classification (getNodeType, getNodeColor),  *)
(* the description synthesis (generateEnhancedDescription), and the React  *)
(* state of the NetworkGraph component with its handlers and effects.      *)
(*                                                                         *)
(* A JavaScript string that the code inspects character by character       *)
(* (Serial, InteractsWithSerials) is a sequence of one-character tokens;   *)
(* the characters outside ASCII are named: "EN" is the en dash U+2013,     *)
(* "EM" the em dash U+2014, and "U201A", "U00C4", "U00EC" the three        *)
(* characters of the regular expression literal of line 198.  A string the *)
(* code only copies (a name, a category, a relationship type) is a         *)
(* sequence of one token.                                                  *)
(***************************************************************************)
EXTENDS Integers, Sequences, FiniteSets, TLC

VARIABLES graphData, selectedNode, nodeEdges, uploadedFile, inflight,
          lastEvent, call, ret, intervals, tick

vars == <<graphData, selectedNode, nodeEdges, uploadedFile, inflight,
          lastEvent, call, ret, intervals, tick>>

(***************************************************************************)
(* Bounds of the model.                                                    *)
(***************************************************************************)
MaxLen == 5
MaxRows == 2
MaxProbeId == 60
MaxInflight == 2
MaxEdges == 4
MaxTick == 2

(***************************************************************************)
(* JavaScript values.                                                      *)
(***************************************************************************)
\* undefined, where a string is expected: a token no character sequence equals.
Undefined == <<"undefined">>

\* null, for the state slots that hold an object or null.
Null == [null |-> TRUE]

\* NaN and a number, as parseInt returns them.
NaN == [nan |-> TRUE, val |-> 0]

Num(n) == [nan |-> FALSE, val |-> n]

DigitChars == <<"0", "1", "2", "3", "4", "5", "6", "7", "8", "9">>

IsDigit(c) == \E d \in 1..Len(DigitChars) : DigitChars[d] = c

DigitVal(c) == (CHOOSE d \in 1..Len(DigitChars) : DigitChars[d] = c) - 1

IsWs(c) == c = " "

\* String.prototype.trim: the white space of both ends removed.
RECURSIVE TrimStart(_)
TrimStart(s) == IF s # <<>> /\ IsWs(Head(s)) THEN TrimStart(Tail(s)) ELSE s

RECURSIVE TrimEnd(_)
TrimEnd(s) ==
    IF s # <<>> /\ IsWs(s[Len(s)]) THEN TrimEnd(SubSeq(s, 1, Len(s) - 1)) ELSE s

Trim(s) == TrimEnd(TrimStart(s))

\* String.prototype.includes for a one-character needle.
Includes(s, c) == \E i \in 1..Len(s) : s[i] = c

\* String.prototype.split for a one-character separator: the pieces between
\* the separators, empty pieces kept.
RECURSIVE Split(_, _)
Split(s, c) ==
    IF ~Includes(s, c) THEN <<s>>
    ELSE LET i == CHOOSE k \in 1..Len(s) :
                      s[k] = c /\ \A j \in 1..(k - 1) : s[j] # c
         IN  <<SubSeq(s, 1, i - 1)>> \o Split(SubSeq(s, i + 1, Len(s)), c)

\* String.prototype.replace with a global literal pattern: every occurrence,
\* left to right, without overlap.
RECURSIVE ReplaceAll(_, _, _)
ReplaceAll(s, pat, rep) ==
    IF Len(s) < Len(pat) \/ pat = <<>> THEN s
    ELSE IF SubSeq(s, 1, Len(pat)) = pat
         THEN rep \o ReplaceAll(SubSeq(s, Len(pat) + 1, Len(s)), pat, rep)
         ELSE <<Head(s)>> \o ReplaceAll(Tail(s), pat, rep)

\* The value of the longest prefix of digits, given the value read so far.
RECURSIVE DigitsValue(_, _)
DigitsValue(s, acc) ==
    IF s # <<>> /\ IsDigit(Head(s))
    THEN DigitsValue(Tail(s), acc * 10 + DigitVal(Head(s)))
    ELSE acc

\* parseInt(s, 10): leading white space skipped, an optional sign, then the
\* longest prefix of digits; NaN when there is no digit.
ParseInt(s) ==
    LET t == TrimStart(s)
        signed == t # <<>> /\ Head(t) \in {"-", "+"}
        u == IF signed THEN Tail(t) ELSE t
    IN  IF u = <<>> \/ ~IsDigit(Head(u)) THEN NaN
        ELSE IF signed /\ Head(t) = "-" THEN Num(0 - DigitsValue(u, 0))
        ELSE Num(DigitsValue(u, 0))

\* String(i) of an integer: its decimal digits, a minus sign first when negative.
RECURSIVE NatToStr(_)
NatToStr(n) ==
    IF n < 10 THEN <<DigitChars[n + 1]>>
    ELSE NatToStr(n \div 10) \o <<DigitChars[(n % 10) + 1]>>

ToStr(i) == IF i < 0 THEN <<"-">> \o NatToStr(0 - i) ELSE NatToStr(i)

(***************************************************************************)
(* getNodeType and getNodeColor.                                           *)
(***************************************************************************)
\* getNodeType with the friendly band one id wider (<= 18).
getNodeType_widerFriendly(id) ==
    LET nodeId == ParseInt(id)
    IN  IF ~nodeId.nan /\ ((nodeId.val >= 1 /\ nodeId.val <= 18) \/ nodeId.val = 33)
        THEN "friendly"
        ELSE IF ~nodeId.nan /\ nodeId.val >= 18 /\ nodeId.val <= 32
        THEN "adversary"
        ELSE "neutral"

\* A comparison with NaN is false, so an id that is no number is neutral.
getNodeType(id) ==
    LET nodeId == ParseInt(id)
    IN  IF ~nodeId.nan /\ ((nodeId.val >= 1 /\ nodeId.val <= 17) \/ nodeId.val = 33)
        THEN "friendly"
        ELSE IF ~nodeId.nan /\ nodeId.val >= 18 /\ nodeId.val <= 32
        THEN "adversary"
        ELSE "neutral"

\* [1, ..., 17, 33]
friendlyIds == [i \in 1..18 |-> IF i <= 17 THEN i ELSE 33]

\* Array.prototype.indexOf, zero-based.
IndexOf(seq, x) ==
    IF \E i \in 1..Len(seq) : seq[i] = x
    THEN (CHOOSE i \in 1..Len(seq) : seq[i] = x /\ \A j \in 1..(i - 1) : seq[j] # x) - 1
    ELSE 0 - 1

\* The colour as its parts: hsl(hue, 70%, lightness%) or the grey #888888.
getNodeColor(id) ==
    LET nodeId == ParseInt(id)
        type == getNodeType(id)
    IN  IF type = "friendly"
        THEN [kind |-> "hsl", hue |-> 210,
              lightness |-> 30 + IndexOf(friendlyIds, nodeId.val) * 3]
        ELSE IF type = "adversary"
        THEN [kind |-> "hsl", hue |-> 0, lightness |-> 30 + (nodeId.val - 18) * 3]
        ELSE [kind |-> "hex", hue |-> 0, lightness |-> 0]

(***************************************************************************)
(* loadCSVData.  Its argument here is the array of rows Papa.parse         *)
(* returns: one record per data line, every field a string.                *)
(***************************************************************************)
Row(serial, category, actor, interacts, relationship, tension) ==
    [Serial |-> serial, Category |-> category, Actor |-> actor,
     ActorDescription |-> <<"description">>, InteractsWithSerials |-> interacts,
     RelationshipType |-> relationship, Tensions |-> tension,
     Relevance |-> <<"relevance">>]

\* nodes: one per row, in row order.
BuildNodes(data) ==
    [r \in 1..Len(data) |->
        [id |-> data[r].Serial, name |-> data[r].Actor,
         category |-> data[r].Category,
         description |-> data[r].ActorDescription,
         relevance |-> data[r].Relevance,
         color |-> getNodeColor(data[r].Serial)]]

\* A link as loadCSVData pushes it: both ends are ids.  sourceIsNode and
\* targetIsNode say whether the rendering engine has since put the node
\* object of that id in place of the id (see EngineResolve).
Link(sourceId, targetId, row) ==
    [source |-> sourceId, target |-> targetId,
     relationship |-> row.RelationshipType, tension |-> row.Tensions,
     sourceIsNode |-> FALSE, targetIsNode |-> FALSE]

\* The characters of the pattern of interacts.replace(/.../g, '-') as the
\* source file holds them.
DashPattern == <<"U201A", "U00C4", "U00EC">>

\* The range loop with an exclusive end (i < endNum).
RangeTargets_exclusiveEnd(startNum, endNum) ==
    [k \in 1..(endNum - startNum) |-> ToStr(startNum + k - 1)]

\* for (let i = startNum; i <= endNum; i++) ... String(i)
RangeTargets(startNum, endNum) ==
    [k \in 1..(endNum - startNum + 1) |-> ToStr(startNum + k - 1)]

\* The callback of interacts.split(';').forEach: the links one item pushes.
ItemLinks(row, item) ==
    LET trimmed == Trim(item)
    IN  IF trimmed = <<>> THEN <<>>
        ELSE IF Includes(trimmed, "-")
        THEN LET parts == Split(trimmed, "-")
                 startNum == ParseInt(Trim(parts[1]))
                 endNum == ParseInt(Trim(parts[2]))
             IN  IF ~startNum.nan /\ ~endNum.nan
                 THEN LET targets == RangeTargets(startNum.val, endNum.val)
                      IN  [k \in 1..Len(targets) |-> Link(row.Serial, targets[k], row)]
                 ELSE <<>>
        ELSE <<Link(row.Serial, trimmed, row)>>

\* What the item callback reports besides its links: it has no throw and no
\* warning statement on any path.
ItemErrors(row, item) == <<>>

RECURSIVE ItemsLinks(_, _)
ItemsLinks(row, items) ==
    IF items = <<>> THEN <<>>
    ELSE ItemLinks(row, Head(items)) \o ItemsLinks(row, Tail(items))

RECURSIVE ItemsErrors(_, _)
ItemsErrors(row, items) ==
    IF items = <<>> THEN <<>>
    ELSE ItemErrors(row, Head(items)) \o ItemsErrors(row, Tail(items))

\* The items of a row: the dash pattern replaced, then split on semicolons.
RowItems(row) ==
    Split(ReplaceAll(row.InteractsWithSerials, DashPattern, <<"-">>), ";")

\* The callback of data.forEach: the links one row pushes, in order.
RowLinks(row) ==
    IF row.InteractsWithSerials = <<>> \/ row.InteractsWithSerials = Undefined
    THEN <<>>
    ELSE ItemsLinks(row, RowItems(row))

RowErrors(row) ==
    IF row.InteractsWithSerials = <<>> \/ row.InteractsWithSerials = Undefined
    THEN <<>>
    ELSE ItemsErrors(row, RowItems(row))

\* links after data.forEach.
RECURSIVE AllLinks(_)
AllLinks(data) ==
    IF data = <<>> THEN <<>> ELSE RowLinks(Head(data)) \o AllLinks(Tail(data))

\* `${link.source}->${link.target}`
LinkKey(link) == link.source \o <<"-", ">">> \o link.target

RECURSIVE DedupFrom(_, _)
DedupFrom(links, linkSet) ==
    IF links = <<>> THEN <<>>
    ELSE LET key == LinkKey(Head(links))
         IN  IF key \notin linkSet
             THEN <<Head(links)>> \o DedupFrom(Tail(links), linkSet \cup {key})
             ELSE DedupFrom(Tail(links), linkSet)

\* A deduplication that keeps the last link of each key instead of the first.
RECURSIVE DedupLastWins(_)
DedupLastWins(links) ==
    IF links = <<>> THEN <<>>
    ELSE IF \E j \in 2..Len(links) : LinkKey(links[j]) = LinkKey(Head(links))
         THEN DedupLastWins(Tail(links))
         ELSE <<Head(links)>> \o DedupLastWins(Tail(links))

UniqueLinks_lastWins(links) == DedupLastWins(links)

\* uniqueLinks: links.forEach with linkSet, the first link of each key kept.
UniqueLinks(links) == DedupFrom(links, {})

\* The argument of setGraphData.
loadCSVData(data) ==
    [nodes |-> BuildNodes(data), links |-> UniqueLinks(AllLinks(data))]

(***************************************************************************)
(* Papa.parse(csvContent, {header: true, skipEmptyLines: true,             *)
(* dynamicTyping: false}).  The text of a file is the sequence of its      *)
(* non-empty lines, a line the sequence of its cells.  The cells of the    *)
(* first line are taken as the field names, whatever they are; every other *)
(* line gives one row, in which a field has the cell below its name and is *)
(* undefined when no cell of the first line carries the name or the line   *)
(* is too short.  The names of a first line are taken to be distinct.      *)
(***************************************************************************)
Columns ==
    << <<"Serial">>, <<"Category">>, <<"Actor">>, <<"ActorDescription">>,
       <<"InteractsWithSerials">>, <<"RelationshipType">>, <<"Tensions">>,
       <<"Relevance">> >>

\* row[name] for the row Papa.parse makes of a line under a first line.
Field(header, line, name) ==
    IF \E k \in 1..Len(header) : header[k] = name /\ k <= Len(line)
    THEN line[CHOOSE k \in 1..Len(header) : header[k] = name /\ k <= Len(line)]
    ELSE Undefined

\* The data of Papa.parse, with the fields loadCSVData reads.
PapaParse(csv) ==
    IF csv = <<>> THEN <<>>
    ELSE [r \in 1..(Len(csv) - 1) |->
            [Serial |-> Field(csv[1], csv[r + 1], <<"Serial">>),
             Category |-> Field(csv[1], csv[r + 1], <<"Category">>),
             Actor |-> Field(csv[1], csv[r + 1], <<"Actor">>),
             ActorDescription |-> Field(csv[1], csv[r + 1], <<"ActorDescription">>),
             InteractsWithSerials |->
                 Field(csv[1], csv[r + 1], <<"InteractsWithSerials">>),
             RelationshipType |-> Field(csv[1], csv[r + 1], <<"RelationshipType">>),
             Tensions |-> Field(csv[1], csv[r + 1], <<"Tensions">>),
             Relevance |-> Field(csv[1], csv[r + 1], <<"Relevance">>)]]

(***************************************************************************)
(* The rendering engine.  <ForceGraph2D graphData={graphData} nodeId="id"> *)
(* hands the link objects to the force layout, which puts, in list order   *)
(* and source before target, the node object of an id in place of the id.  *)
(* The engine is no code of this repository.  For an id that no node       *)
(* carries there is no object to put: the engine either leaves that end as *)
(* it is and goes on (strict = FALSE), or stops there with an error        *)
(* ("node not found"), the ends after it left as ids (strict = TRUE).      *)
(***************************************************************************)
HasNode(nodes, id) == \E i \in 1..Len(nodes) : nodes[i].id = id

\* The node the engine's id index holds for an id: the last one carrying it.
NodeById(nodes, id) ==
    nodes[CHOOSE i \in 1..Len(nodes) :
              nodes[i].id = id /\ \A j \in (i + 1)..Len(nodes) : nodes[j].id # id]

LinkResolvable(nodes, link) ==
    HasNode(nodes, link.source) /\ HasNode(nodes, link.target)

EngineResolve(graph, strict) ==
    LET nodes == graph.nodes
        links == graph.links
        reached(k) ==
            ~strict \/ \A j \in 1..(k - 1) : LinkResolvable(nodes, links[j])
    IN  [nodes |-> nodes,
         links |->
            [k \in 1..Len(links) |->
                [links[k] EXCEPT
                    !.sourceIsNode = reached(k) /\ HasNode(nodes, links[k].source),
                    !.targetIsNode =
                        /\ reached(k)
                        /\ HasNode(nodes, links[k].target)
                        /\ (strict => HasNode(nodes, links[k].source))]]]

(***************************************************************************)
(* handleNodeClick.                                                        *)
(***************************************************************************)
\* link.source.id and link.target.id: the id of the node object, undefined
\* when the end is still an id (a string has no property id).
SourceId(link) == IF link.sourceIsNode THEN link.source ELSE Undefined

TargetId(link) == IF link.targetIsNode THEN link.target ELSE Undefined

\* Array.prototype.filter.
RECURSIVE ConnectedEdges(_, _)
ConnectedEdges(links, node) ==
    IF links = <<>> THEN <<>>
    ELSE (IF SourceId(Head(links)) = node.id \/ TargetId(Head(links)) = node.id
          THEN <<Head(links)>> ELSE <<>>)
         \o ConnectedEdges(Tail(links), node)

\* The callback of connectedEdges.map.
EdgeInfo(nodes, link, node) ==
    LET isSource == SourceId(link) = node.id
        otherIsNode == IF isSource THEN link.targetIsNode ELSE link.sourceIsNode
        otherRaw == IF isSource THEN link.target ELSE link.source
    IN  [direction |-> IF isSource THEN "to" ELSE "from",
         otherNodeId |-> IF otherIsNode THEN otherRaw ELSE Undefined,
         otherNodeName |->
            IF otherIsNode THEN NodeById(nodes, otherRaw).name ELSE Undefined,
         otherNodeCategory |->
            IF otherIsNode THEN NodeById(nodes, otherRaw).category ELSE Undefined,
         relationship |-> link.relationship,
         tension |-> link.tension]

\* edgeInfo, the argument of setNodeEdges.
NodeEdgeInfo(graph, node) ==
    LET connectedEdges == ConnectedEdges(graph.links, node)
    IN  [k \in 1..Len(connectedEdges) |->
            EdgeInfo(graph.nodes, connectedEdges[k], node)]

(***************************************************************************)
(* generateEnhancedDescription(node), which reads nodeEdges.  The text it  *)
(* returns is modelled by its parts: the description and relevance shown,  *)
(* which Network Position sentence is written with which counts, and the   *)
(* entries of catSummary, each the count and the category of one           *)
(* "${count} ${cat}".                                                      *)
(***************************************************************************)
\* A string in a condition or on the left of ||: undefined and '' are falsy.
Falsy(str) == str = Undefined \/ str = <<>>

\* nodeEdges.filter(e => e.direction === direction)
RECURSIVE EdgesOfDirection(_, _)
EdgesOfDirection(edges, direction) ==
    IF edges = <<>> THEN <<>>
    ELSE (IF Head(edges).direction = direction THEN <<Head(edges)>> ELSE <<>>)
         \o EdgesOfDirection(Tail(edges), direction)

\* The callback without its || 'Other'.
CategoryOf_noFallback(edge) == edge.otherNodeCategory

\* edge.otherNodeCategory || 'Other'
CategoryOf(edge) ==
    IF Falsy(edge.otherNodeCategory) THEN <<"Other">> ELSE edge.otherNodeCategory

\* categories[cat] = (categories[cat] || 0) + 1, for the edges in order.  The
\* object is kept as its properties in the order they were created.
RECURSIVE CountCategories(_, _)
CountCategories(edges, categories) ==
    IF edges = <<>> THEN categories
    ELSE LET cat == CategoryOf(Head(edges))
         IN  CountCategories(Tail(edges),
                IF \E k \in 1..Len(categories) : categories[k].cat = cat
                THEN [k \in 1..Len(categories) |->
                         IF categories[k].cat = cat
                         THEN [categories[k] EXCEPT !.count = @ + 1]
                         ELSE categories[k]]
                ELSE Append(categories, [cat |-> cat, count |-> 1]))

\* A property name that is an array index: the decimal numeral of a
\* non-negative integer, without leading zeros.
IsArrayIndex(key) ==
    /\ key # <<>>
    /\ \A k \in 1..Len(key) : IsDigit(key[k])
    /\ Len(key) = 1 \/ key[1] # "0"

\* The entries in ascending order of the index their name is.
RECURSIVE IndexEntries(_)
IndexEntries(entries) ==
    IF entries = {} THEN <<>>
    ELSE LET least == CHOOSE e \in entries :
                          \A f \in entries :
                              DigitsValue(e.cat, 0) <= DigitsValue(f.cat, 0)
         IN  <<least>> \o IndexEntries(entries \ {least})

RECURSIVE NamedEntries(_)
NamedEntries(categories) ==
    IF categories = <<>> THEN <<>>
    ELSE (IF IsArrayIndex(Head(categories).cat) THEN <<>> ELSE <<Head(categories)>>)
         \o NamedEntries(Tail(categories))

\* Object.entries: the array indices first, in ascending order, then the
\* other names in the order the properties were created.
ObjectEntries(categories) ==
    IndexEntries({categories[k] : k \in {j \in 1..Len(categories) :
                                            IsArrayIndex(categories[j].cat)}})
    \o NamedEntries(categories)

\* The sort with the comparison the other way round (a[1] - b[1]).
RECURSIVE SortByCount_ascending(_, _)
SortByCount_ascending(entries, sorted) ==
    IF entries = <<>> THEN sorted
    ELSE LET e == Head(entries)
             p == Cardinality({k \in 1..Len(sorted) : sorted[k].count <= e.count})
         IN  SortByCount_ascending(Tail(entries),
                SubSeq(sorted, 1, p) \o <<e>> \o SubSeq(sorted, p + 1, Len(sorted)))

\* .sort((a, b) => b[1] - a[1]): by descending count; the sort is stable, so
\* an entry goes behind the entries of the same count that came before it.
RECURSIVE SortByCount(_, _)
SortByCount(entries, sorted) ==
    IF entries = <<>> THEN sorted
    ELSE LET e == Head(entries)
             p == Cardinality({k \in 1..Len(sorted) : sorted[k].count >= e.count})
         IN  SortByCount(Tail(entries),
                SubSeq(sorted, 1, p) \o <<e>> \o SubSeq(sorted, p + 1, Len(sorted)))

\* .slice(0, 3)
SliceTop(entries) == SubSeq(entries, 1, IF Len(entries) < 3 THEN Len(entries) ELSE 3)

\* catSummary before its join(', ').
CatSummary(outgoingEdges, incomingEdges) ==
    SliceTop(SortByCount(
        ObjectEntries(CountCategories(outgoingEdges \o incomingEdges, <<>>)), <<>>))

\* return '' of a call without node.
NoDescription ==
    [description |-> <<>>, relevance |-> <<>>, position |-> "none",
     outgoing |-> 0, incoming |-> 0, hasSummary |-> FALSE, summary |-> <<>>]

generateEnhancedDescription(node, edges) ==
    IF node = Null THEN NoDescription
    ELSE LET outgoingEdges == EdgesOfDirection(edges, "to")
             incomingEdges == EdgesOfDirection(edges, "from")
             connected == Len(outgoingEdges) > 0 \/ Len(incomingEdges) > 0
             catSummary == CatSummary(outgoingEdges, incomingEdges)
         IN  [description |-> IF Falsy(node.description)
                              THEN <<"No description available.">>
                              ELSE node.description,
              relevance |-> IF Falsy(node.relevance) THEN <<>> ELSE node.relevance,
              position |-> IF ~connected THEN "none"
                           ELSE IF Len(outgoingEdges) > 0 /\ Len(incomingEdges) > 0
                           THEN "intermediary"
                           ELSE IF Len(outgoingEdges) > 0 THEN "projects"
                           ELSE "receives",
              outgoing |-> IF connected THEN Len(outgoingEdges) ELSE 0,
              incoming |-> IF connected THEN Len(incomingEdges) ELSE 0,
              hasSummary |-> connected /\ catSummary # <<>>,
              summary |-> IF connected THEN catSummary ELSE <<>>]

(***************************************************************************)
(* The datasets of the component model.  The bundled default,              *)
(* ../data/relationships1_fixed.csv, is not among the source files; a      *)
(* three-row dataset stands for it.  The uploads bring a reference to an   *)
(* id without a row, self-loops before and after it, a repeated serial and *)
(* a range.                                                                *)
(***************************************************************************)
DefaultData ==
    << Row(<<"1">>, <<"c1">>, <<"A">>, <<"2", ";", "3">>, <<"r1">>, <<"t1">>),
       Row(<<"2">>, <<"c2">>, <<"B">>, <<"3">>, <<"r2">>, <<"t2">>),
       Row(<<"3">>, <<"c1">>, <<"C">>, <<"1", "-", "2">>, <<"r3">>, <<"t3">>) >>

UploadData ==
    { << Row(<<"1">>, <<"c1">>, <<"A">>, <<"1", ";", "9", ";", "2">>, <<"r1">>, <<"t1">>),
         Row(<<"2">>, <<"c2">>, <<"B">>, <<"2", ";", "1">>, <<"r2">>, <<"t2">>) >>,
      << Row(<<"1">>, <<"c1">>, <<"A">>, <<"1", "-", "2">>, <<"r1">>, <<"t1">>),
         Row(<<"2">>, <<"c2">>, <<"B">>, <<"1">>, <<"r2">>, <<"t2">>),
         Row(<<"1">>, <<"c3">>, <<"A2">>, <<"2", ";", "1">>, <<"r3">>, <<"t3">>) >> }

\* The line of a file that holds a row, in the column order of Columns.
CsvLine(row) ==
    << row.Serial, row.Category, row.Actor, row.ActorDescription,
       row.InteractsWithSerials, row.RelationshipType, row.Tensions,
       row.Relevance >>

\* The text of a file: a first line, then the lines of the rows.
CsvText(firstLine, data) ==
    <<firstLine>> \o [r \in 1..Len(data) |-> CsvLine(data[r])]

DefaultCsv == CsvText(Columns, DefaultData)

\* A first line that names the id column ID instead of Serial.
MismatchedColumns == [k \in 1..Len(Columns) |-> IF k = 1 THEN <<"ID">> ELSE Columns[k]]

\* Two rows without a line of names above them.
HeaderlessData ==
    << Row(<<"1">>, <<"c1">>, <<"A">>, <<"2">>, <<"r1">>, <<"t1">>),
       Row(<<"2">>, <<"c2">>, <<"B">>, <<"1">>, <<"r2">>, <<"t2">>) >>

\* The texts of the files a user may choose: the datasets of UploadData
\* under the expected first line, one of them under a first line with
\* another name for a column, and a file that starts with its first row.
UploadCsvs ==
    {CsvText(Columns, data) : data \in UploadData}
    \cup {CsvText(MismatchedColumns, HeaderlessData)}
    \cup {CsvText(CsvLine(HeaderlessData[1]), Tail(HeaderlessData))}

\* event.target.files[0]: nothing chosen, or a file of some type.
CsvType == <<"text/csv">>

FileTypes == {CsvType, <<"text/plain">>}

ChosenFiles == {[type |-> t, data |-> d] : t \in FileTypes, d \in UploadCsvs}

(***************************************************************************)
(* The component: its state after the first render and its handlers.       *)
(* intervals holds the intervals of the pulse effect that are set and not   *)
(* cleared, tick the counter their callback advances.                      *)
(* inflight holds the reads and fetches the dataset effect has started and *)
(* that have not called back; they may call back in any order.  lastEvent  *)
(* records the handler that ran last.  call and ret belong to the          *)
(* specification of the pure functions below and stay idle here.  The data *)
(* of a read or fetch is the text it will hand to loadCSVData.             *)
(***************************************************************************)
EmptyGraph == [nodes |-> <<>>, links |-> <<>>]

Event(op, node) == [op |-> op, node |-> node]

IdleCall == [fn |-> "none", arg |-> <<>>]

IdleRet == [done |-> FALSE, value |-> <<>>]

Fetch == [kind |-> "fetch", data |-> DefaultCsv]

Read(file) == [kind |-> "read", data |-> file.data]

\* useState initial values, then the dataset effect of the first render
\* (uploadedFile is null: the default is fetched).  React.StrictMode runs
\* the effects of a mount twice in a development build, once in production.
Init ==
    /\ graphData = EmptyGraph
    /\ selectedNode = Null
    /\ nodeEdges = <<>>
    /\ uploadedFile = Null
    /\ inflight \in {<<Fetch>>, <<Fetch, Fetch>>}
    /\ lastEvent = Event("mount", Null)
    /\ call = IdleCall
    /\ ret = IdleRet
    /\ intervals = <<>>
    /\ tick = 0

RemoveAt(seq, i) == SubSeq(seq, 1, i - 1) \o SubSeq(seq, i + 1, Len(seq))

\* The pulse effect without the clearInterval it returns.
PulseEffect_noCleanup(old, new, live) ==
    IF new = old THEN live
    ELSE IF new # Null THEN Append(live, new) ELSE live

\* The pulse effect, useEffect(..., [selectedNode]), in the render after a
\* handler: live are the intervals set and not cleared, each named by the
\* selection it was set for.  The effect runs when selectedNode is another
\* value than at the render before: first the cleanup the last run returned
\* clears the interval that run set (it set one when the selection then was
\* a node), then setInterval is called when the new selection is a node.
PulseEffect(old, new, live) ==
    IF new = old THEN live
    ELSE LET cleared == IF old # Null THEN SubSeq(live, 1, Len(live) - 1) ELSE live
         IN  IF new # Null THEN Append(cleared, new) ELSE cleared

\* reader.onload, or the second then of the fetch: loadCSVData (Papa.parse,
\* then the nodes and links) and setGraphData, then the render in which the
\* engine takes the new graph.
LoadComplete(i, strict) ==
    /\ i \in 1..Len(inflight)
    /\ graphData' = EngineResolve(loadCSVData(PapaParse(inflight[i].data)), strict)
    /\ inflight' = RemoveAt(inflight, i)
    /\ lastEvent' = Event("load", Null)
    /\ UNCHANGED <<selectedNode, nodeEdges, uploadedFile, call, ret, intervals, tick>>

\* onNodeClick: the engine passes the node object that was hit.
handleNodeClick(node) ==
    /\ selectedNode' = node
    /\ nodeEdges' = NodeEdgeInfo(graphData, node)
    /\ lastEvent' = Event("nodeClick", node)
    /\ intervals' = PulseEffect(selectedNode, node, intervals)
    /\ UNCHANGED <<graphData, uploadedFile, inflight, call, ret, tick>>

NodeClick == \E n \in 1..Len(graphData.nodes) : handleNodeClick(graphData.nodes[n])

\* handleBackgroundClick without its setNodeEdges([]).
handleBackgroundClick_keepsEdges ==
    /\ selectedNode' = Null
    /\ nodeEdges' = nodeEdges
    /\ lastEvent' = Event("backgroundClick", Null)
    /\ intervals' = PulseEffect(selectedNode, Null, intervals)
    /\ UNCHANGED <<graphData, uploadedFile, inflight, call, ret, tick>>

\* onBackgroundClick, and the onClick of the panel's close button.
handleBackgroundClick ==
    /\ selectedNode' = Null
    /\ nodeEdges' = <<>>
    /\ lastEvent' = Event("backgroundClick", Null)
    /\ intervals' = PulseEffect(selectedNode, Null, intervals)
    /\ UNCHANGED <<graphData, uploadedFile, inflight, call, ret, tick>>

\* handleFileUpload with the clearing of the selection before the test of
\* the file.
handleFileUpload_clearsFirst(file) ==
    IF file # Null /\ file.type = CsvType
    THEN /\ Len(inflight) < MaxInflight
         /\ uploadedFile' = file
         /\ selectedNode' = Null
         /\ nodeEdges' = <<>>
         /\ inflight' = Append(inflight, Read(file))
         /\ lastEvent' = Event("upload", Null)
         /\ intervals' = PulseEffect(selectedNode, Null, intervals)
         /\ UNCHANGED <<graphData, call, ret, tick>>
    ELSE /\ selectedNode' = Null
         /\ nodeEdges' = <<>>
         /\ lastEvent' = Event("uploadRejected", Null)
         /\ intervals' = PulseEffect(selectedNode, Null, intervals)
         /\ UNCHANGED <<graphData, uploadedFile, inflight, call, ret, tick>>

\* handleFileUpload.  With a file of type text/csv the dataset effect then
\* runs for the new uploadedFile and starts reading it; with no file, or a
\* file of another type, there is only the alert.
handleFileUpload(file) ==
    IF file # Null /\ file.type = CsvType
    THEN /\ Len(inflight) < MaxInflight
         /\ uploadedFile' = file
         /\ selectedNode' = Null
         /\ nodeEdges' = <<>>
         /\ inflight' = Append(inflight, Read(file))
         /\ lastEvent' = Event("upload", Null)
         /\ intervals' = PulseEffect(selectedNode, Null, intervals)
         /\ UNCHANGED <<graphData, call, ret, tick>>
    ELSE /\ lastEvent' = Event("uploadRejected", Null)
         /\ UNCHANGED <<graphData, selectedNode, nodeEdges, uploadedFile,
                        inflight, call, ret, intervals, tick>>

FileUpload == \E file \in ChosenFiles \cup {Null} : handleFileUpload(file)

\* handleResetToDefault without its setNodeEdges([]).
handleResetToDefault_keepsEdges ==
    /\ uploadedFile # Null => Len(inflight) < MaxInflight
    /\ uploadedFile' = Null
    /\ selectedNode' = Null
    /\ nodeEdges' = nodeEdges
    /\ inflight' = IF uploadedFile # Null THEN Append(inflight, Fetch) ELSE inflight
    /\ lastEvent' = Event("reset", Null)
    /\ intervals' = PulseEffect(selectedNode, Null, intervals)
    /\ UNCHANGED <<graphData, call, ret, tick>>

\* handleResetToDefault; the dataset effect runs only when uploadedFile
\* changes, that is when a file was set, and then fetches the default.
handleResetToDefault ==
    /\ uploadedFile # Null => Len(inflight) < MaxInflight
    /\ uploadedFile' = Null
    /\ selectedNode' = Null
    /\ nodeEdges' = <<>>
    /\ inflight' = IF uploadedFile # Null THEN Append(inflight, Fetch) ELSE inflight
    /\ lastEvent' = Event("reset", Null)
    /\ intervals' = PulseEffect(selectedNode, Null, intervals)
    /\ UNCHANGED <<graphData, call, ret, tick>>

\* The callback of a live interval, every 50 ms: setTick(t => t + 1).
PulseTick ==
    /\ \E k \in 1..Len(intervals) : tick' = tick + 1
    /\ tick < MaxTick
    /\ UNCHANGED <<graphData, selectedNode, nodeEdges, uploadedFile, inflight,
                   lastEvent, call, ret, intervals>>

Next ==
    \/ \E i \in 1..Len(inflight), strict \in BOOLEAN : LoadComplete(i, strict)
    \/ NodeClick
    \/ handleBackgroundClick
    \/ FileUpload
    \/ handleResetToDefault
    \/ PulseTick

Spec == Init /\ [][Next]_vars

(***************************************************************************)
(* The pure functions on their own: SpecFn draws one argument from a       *)
(* bounded set and applies the function to it.  The component's variables  *)
(* stay as the first render left them.                                     *)
(***************************************************************************)
\* The characters an InteractsWithSerials value is drawn from: two digits,
\* the three dashes, the separator, a blank and a letter.
InteractAlphabet == {"1", "3", "-", "EN", "EM", ";", " ", "x"}

\* Values that hold the three characters of DashPattern.
PatternInteracts ==
    { <<"1">> \o DashPattern \o <<"3">>,
      <<"3">> \o DashPattern \o <<"1">>,
      DashPattern }

InteractInputs ==
    UNION {[1..n -> InteractAlphabet] : n \in 0..MaxLen} \cup PatternInteracts

\* The row a probed InteractsWithSerials value sits in.
ProbeRow(interacts) ==
    Row(<<"7">>, <<"c7">>, <<"G">>, interacts, <<"r7">>, <<"t7">>)

\* Rows for whole datasets: two serials, references that repeat and
\* overlap, two relationship types.
DataRows ==
    { Row(serial, <<"c">>, <<"N">> \o serial, interacts, rel, <<"t">> \o rel) :
        serial \in {<<"1">>, <<"2">>},
        interacts \in { <<>>, <<"2">>, <<"2", ";", "2">>, <<"1", "-", "2">>,
                        <<"2", ";", "1">> },
        rel \in {<<"ra">>, <<"rb">>} }

DataInputs == UNION {[1..n -> DataRows] : n \in 0..MaxRows}

\* Ids as the text of an integer.
IdInputs == {ToStr(i) : i \in (0 - MaxProbeId)..MaxProbeId}

\* The categories of the neighbours of a probed neighbourhood: two names,
\* two numerals, and the two ways a neighbour has none (no node object, an
\* empty cell).
CategoryInputs == {<<"ca">>, <<"cb">>, <<"7">>, <<"1", "0">>, Undefined, <<>>}

\* A neighbourhood entry as handleNodeClick makes it.
EdgeEntry(direction, category) ==
    [direction |-> direction, otherNodeId |-> <<"2">>, otherNodeName |-> <<"B">>,
     otherNodeCategory |-> category, relationship |-> <<"r">>, tension |-> <<"t">>]

EdgeEntries ==
    {EdgeEntry(direction, category) :
        direction \in {"to", "from"}, category \in CategoryInputs}

\* The node and nodeEdges of a call of generateEnhancedDescription.
DescriptionInputs ==
    {[node |-> BuildNodes(DefaultData)[1], nodeEdges |-> edges] :
        edges \in UNION {[1..n -> EdgeEntries] : n \in 0..MaxEdges}}

InitFn ==
    /\ graphData = EmptyGraph
    /\ selectedNode = Null
    /\ nodeEdges = <<>>
    /\ uploadedFile = Null
    /\ inflight = <<Fetch>>
    /\ lastEvent = Event("mount", Null)
    /\ ret = IdleRet
    /\ intervals = <<>>
    /\ tick = 0
    /\ \/ \E interacts \in InteractInputs :
            call = [fn |-> "RowLinks", arg |-> ProbeRow(interacts)]
       \/ \E data \in DataInputs : call = [fn |-> "loadCSVData", arg |-> data]
       \/ \E id \in IdInputs : call = [fn |-> "getNodeType", arg |-> id]
       \/ \E id \in IdInputs : call = [fn |-> "getNodeColor", arg |-> id]
       \/ \E input \in DescriptionInputs :
            call = [fn |-> "generateEnhancedDescription", arg |-> input]

Returns(value) ==
    /\ ~ret.done
    /\ ret' = [done |-> TRUE, value |-> value]
    /\ UNCHANGED <<graphData, selectedNode, nodeEdges, uploadedFile, inflight,
                   lastEvent, call, intervals, tick>>

ApplyRowLinks ==
    /\ call.fn = "RowLinks"
    /\ Returns([links |-> RowLinks(call.arg), errors |-> RowErrors(call.arg)])

ApplyLoadCSVData ==
    /\ call.fn = "loadCSVData"
    /\ Returns(loadCSVData(call.arg))

ApplyGetNodeType ==
    /\ call.fn = "getNodeType"
    /\ Returns(getNodeType(call.arg))

ApplyGetNodeColor ==
    /\ call.fn = "getNodeColor"
    /\ Returns(getNodeColor(call.arg))

ApplyGenerateEnhancedDescription ==
    /\ call.fn = "generateEnhancedDescription"
    /\ Returns(generateEnhancedDescription(call.arg.node, call.arg.nodeEdges))

NextFn ==
    \/ ApplyRowLinks
    \/ ApplyLoadCSVData
    \/ ApplyGetNodeType
    \/ ApplyGetNodeColor
    \/ ApplyGenerateEnhancedDescription

SpecFn == InitFn /\ [][NextFn]_vars

(***************************************************************************)
(* Properties of the loader and of the classification, under SpecFn.       *)
(***************************************************************************)
\* A NUMBER of the InteractsWithSerials grammar: one or more digits.
IsNumeral(s) == s # <<>> /\ \A i \in 1..Len(s) : IsDigit(s[i])

RECURSIVE NumeralValue(_)
NumeralValue(s) ==
    IF s = <<>> THEN 0
    ELSE NumeralValue(SubSeq(s, 1, Len(s) - 1)) * 10 + DigitVal(s[Len(s)])

Dashes == {"-", "EN", "EM"}

\* seg is NUMBER sep NUMBER for the separator at position p.
IsRangeAt(seg, p, seps) ==
    /\ p \in 1..Len(seg)
    /\ seg[p] \in seps
    /\ IsNumeral(SubSeq(seg, 1, p - 1))
    /\ IsNumeral(SubSeq(seg, p + 1, Len(seg)))

RangeLo(seg, p) == NumeralValue(SubSeq(seg, 1, p - 1))

RangeHi(seg, p) == NumeralValue(SubSeq(seg, p + 1, Len(seg)))

\* s[i..j] is a whole segment of s: it holds no semicolon, and a semicolon
\* or an end of s is on either side of it.
IsSegment(s, i, j) ==
    /\ 1 <= i /\ i <= j /\ j <= Len(s)
    /\ \A k \in i..j : s[k] # ";"
    /\ i = 1 \/ s[i - 1] = ";"
    /\ j = Len(s) \/ s[j + 1] = ";"

\* The links the same row pushes for a part of its InteractsWithSerials.
PartLinks(row, part) == RowLinks([row EXCEPT !.InteractsWithSerials = part])

\* What segment s[i..j] of the probed row contributed to the links returned:
\* the links between those of the text before it and those of the text after.
Contribution(i, j) ==
    LET row == call.arg
        s == row.InteractsWithSerials
        before == PartLinks(row, SubSeq(s, 1, i - 1))
        after == PartLinks(row, SubSeq(s, j + 1, Len(s)))
        all == ret.value.links
    IN  [ok |-> /\ Len(all) >= Len(before) + Len(after)
                /\ SubSeq(all, 1, Len(before)) = before
                /\ SubSeq(all, Len(all) - Len(after) + 1, Len(all)) = after,
         links |-> SubSeq(all, Len(before) + 1, Len(all) - Len(after))]

RowLinksReturned == call.fn = "RowLinks" /\ ret.done

\* C1: the edge list of a dataset load is the flattened sequence of expanded
\* references with every later repeat of an ordered pair (source, target)
\* removed: each pair once, with the relationship and tension of its first
\* occurrence, the survivors in their original order.
C1_DedupFirstWins ==
    (call.fn = "loadCSVData" /\ ret.done) =>
        LET flat == AllLinks(call.arg)
            edges == ret.value.links
            Pair(l) == <<l.source, l.target>>
            first == {i \in 1..Len(flat) :
                         \A j \in 1..(i - 1) : Pair(flat[j]) # Pair(flat[i])}
            nth(k) == CHOOSE i \in first : Cardinality({j \in first : j < i}) = k - 1
        IN  /\ Len(edges) = Cardinality(first)
            /\ \A k \in 1..Len(edges) : edges[k] = flat[nth(k)]

\* A load in which a repeat was dropped that carried another relationship
\* than the edge kept for its pair, and in which an edge follows the kept one.
C1_Witness ==
    /\ call.fn = "loadCSVData" /\ ret.done
    /\ LET flat == AllLinks(call.arg)
           edges == ret.value.links
       IN  /\ Len(edges) >= 2
           /\ \E i, j \in 1..Len(flat) :
                 /\ i < j
                 /\ flat[i].source = flat[j].source
                 /\ flat[i].target = flat[j].target
                 /\ flat[i].relationship # flat[j].relationship
                 /\ edges[1] = flat[i]

\* C2: a range segment a-b (hyphen, blanks around it aside) with a <= b
\* contributes exactly one link for each integer of a..b, in ascending
\* order, each with the row's serial as source, and nothing else.
C2_RangeExpansion ==
    RowLinksReturned =>
        LET s == call.arg.InteractsWithSerials
        IN  \A i, j, p \in 1..Len(s) :
                LET seg == Trim(SubSeq(s, i, j))
                IN  (/\ IsSegment(s, i, j)
                     /\ IsRangeAt(seg, p, {"-"})
                     /\ RangeLo(seg, p) <= RangeHi(seg, p))
                    => LET c == Contribution(i, j)
                           a == RangeLo(seg, p)
                           b == RangeHi(seg, p)
                       IN  /\ c.ok
                           /\ Len(c.links) = b - a + 1
                           /\ \A k \in 1..Len(c.links) :
                                 /\ c.links[k].source = call.arg.Serial
                                 /\ c.links[k].target = ToStr(a + k - 1)

\* A range of several integers that follows another segment was expanded.
C2_Witness ==
    /\ RowLinksReturned
    /\ LET s == call.arg.InteractsWithSerials
       IN  \E i, j, p \in 1..Len(s) :
              /\ i > 2
              /\ IsSegment(s, i, j)
              /\ IsRangeAt(Trim(SubSeq(s, i, j)), p, {"-"})
              /\ RangeLo(Trim(SubSeq(s, i, j)), p) < RangeHi(Trim(SubSeq(s, i, j)), p)
              /\ Len(ret.value.links) > Len(Contribution(i, j).links)
              /\ Len(Contribution(i, j).links) >= 3

\* C3: a range segment whose start is greater than its end is reported as an
\* error; it is not expanded to zero targets with nothing reported.
C3_ReversedRangeReported ==
    RowLinksReturned =>
        LET s == call.arg.InteractsWithSerials
        IN  \A i, j, p \in 1..Len(s) :
                LET seg == Trim(SubSeq(s, i, j))
                IN  (/\ IsSegment(s, i, j)
                     /\ IsRangeAt(seg, p, {"-"})
                     /\ RangeLo(seg, p) > RangeHi(seg, p))
                    => ret.value.errors # <<>>

\* C4: hyphen, en dash and em dash are the same range separator: a segment
\* a SEP b with a <= b expands to the targets a..b whichever of the three
\* SEP is.
C4_DashesAlike ==
    RowLinksReturned =>
        LET s == call.arg.InteractsWithSerials
        IN  \A p \in 1..Len(s) :
                (IsRangeAt(s, p, Dashes) /\ RangeLo(s, p) <= RangeHi(s, p))
                => LET a == RangeLo(s, p)
                       b == RangeHi(s, p)
                       links == ret.value.links
                   IN  /\ Len(links) = b - a + 1
                       /\ \A k \in 1..Len(links) : links[k].target = ToStr(a + k - 1)

\* A segment of digits, dashes, letters and blanks that is neither a NUMBER
\* nor NUMBER SEP NUMBER, blanks around it aside.
IsNonNumeric(seg) ==
    LET t == Trim(seg)
    IN  /\ t # <<>>
        /\ \A k \in 1..Len(t) : t[k] \in InteractAlphabet
        /\ ~IsNumeral(t)
        /\ ~\E p \in 1..Len(t) : IsRangeAt(t, p, Dashes)

\* C5: a segment that is not numeric produces no edge, and the other
\* segments of the row still produce their edges.  (The claim adds that the
\* segment is recorded as a warning; the row callback records nothing at
\* all, see RowErrors.)
C5_NonNumericDropped ==
    RowLinksReturned =>
        LET s == call.arg.InteractsWithSerials
        IN  \A i, j \in 1..Len(s) :
                (IsSegment(s, i, j) /\ IsNonNumeric(SubSeq(s, i, j)))
                => /\ Contribution(i, j).ok
                   /\ Contribution(i, j).links = <<>>

\* C6: the classification of an integer id: 1..17 and 33 friendly, 18..32
\* adversary, every other integer neutral.
C6_FactionPartition ==
    (call.fn = "getNodeType" /\ ret.done) =>
        \A i \in (0 - MaxProbeId)..MaxProbeId :
            call.arg = ToStr(i) =>
                ret.value = IF i \in (1..17) \cup {33} THEN "friendly"
                            ELSE IF i \in 18..32 THEN "adversary"
                            ELSE "neutral"

\* Id 17, the last of the friendly band, was classified.
C6_Witness ==
    /\ call.fn = "getNodeType" /\ ret.done
    /\ call.arg = ToStr(17)
    /\ ret.value = "friendly"

(***************************************************************************)
(* Properties of the selection, under Spec.  After a node click lastEvent  *)
(* holds the clicked node and graphData is the graph that was clicked in.  *)
(***************************************************************************)
Clicked == lastEvent.op = "nodeClick"

\* The positions in the edge list of the edges with id x at either end.
Incident(links, x) ==
    {k \in 1..Len(links) : links[k].source = x \/ links[k].target = x}

\* The k-th smallest member of a set of positions.
NthOf(S, k) == CHOOSE i \in S : Cardinality({j \in S : j < i}) = k - 1

\* The entry the claims ask of edge e for the clicked id x: Outgoing when x
\* is its source, Incoming otherwise, the other end as neighbour.
EntryMatches(entry, e, x) ==
    /\ entry.direction = IF e.source = x THEN "to" ELSE "from"
    /\ entry.otherNodeId = IF e.source = x THEN e.target ELSE e.source
    /\ entry.relationship = e.relationship
    /\ entry.tension = e.tension

\* An edge one of whose ends is the id of no node of the graph.
Dangling(graph, e) ==
    ~HasNode(graph.nodes, e.source) \/ ~HasNode(graph.nodes, e.target)

\* C7: after a click on node X the neighbourhood holds exactly one entry for
\* each edge of the graph with X as source or target, in edge-list order,
\* Outgoing with the target as neighbour when X is the source, Incoming with
\* the source as neighbour when X is the target, with the edge's
\* relationship and tension; nothing of an earlier selection remains.
C7_NeighborhoodOfClick ==
    Clicked =>
        LET x == lastEvent.node.id
            inc == Incident(graphData.links, x)
        IN  /\ selectedNode = lastEvent.node
            /\ Len(nodeEdges) = Cardinality(inc)
            /\ \A k \in 1..Len(nodeEdges) :
                  EntryMatches(nodeEdges[k], graphData.links[NthOf(inc, k)], x)

\* C7 in the graphs in which every edge end is the id of a node.
C7_WithoutDanglingEdges ==
    (Clicked /\ \A k \in 1..Len(graphData.links) :
                    ~Dangling(graphData, graphData.links[k]))
    => C7_NeighborhoodOfClick

\* C8: a self-loop at the clicked node X contributes exactly one entry,
\* Outgoing with X as the neighbour, and none that is Incoming.
C8_SelfLoopOnce ==
    Clicked =>
        LET x == lastEvent.node.id
            self == {k \in 1..Len(nodeEdges) : nodeEdges[k].otherNodeId = x}
        IN  (\E k \in 1..Len(graphData.links) :
                 graphData.links[k].source = x /\ graphData.links[k].target = x)
            => /\ Cardinality(self) = 1
               /\ \A k \in self : nodeEdges[k].direction = "to"

\* C8 in the graphs in which every edge end is the id of a node.
C8_WithoutDanglingEdges ==
    (Clicked /\ \A k \in 1..Len(graphData.links) :
                    ~Dangling(graphData, graphData.links[k]))
    => C8_SelfLoopOnce

\* C9: an edge whose target is the id of no node stays in the graph, and a
\* click on its source yields an entry for it that names the missing end by
\* its id.
C9_UnknownEndNamedById ==
    Clicked =>
        LET x == lastEvent.node.id
        IN  \A k \in 1..Len(graphData.links) :
               (/\ graphData.links[k].source = x
                /\ ~HasNode(graphData.nodes, graphData.links[k].target))
               => \E n \in 1..Len(nodeEdges) :
                     /\ nodeEdges[n].direction = "to"
                     /\ nodeEdges[n].otherNodeId = graphData.links[k].target

\* C10: a background click, or the close button, leaves nothing selected:
\* selectedNode is null and the neighbourhood empty, the graph and the
\* uploaded file as they were.
C10_BackgroundClickClears ==
    [][lastEvent'.op = "backgroundClick" =>
          /\ selectedNode' = Null
          /\ nodeEdges' = <<>>
          /\ graphData' = graphData
          /\ uploadedFile' = uploadedFile]_vars

\* A background click with an uploaded graph on display and a load pending.
C10_Witness ==
    /\ lastEvent.op = "backgroundClick"
    /\ selectedNode = Null
    /\ nodeEdges = <<>>
    /\ uploadedFile # Null
    /\ graphData.links # <<>>
    /\ inflight # <<>>

\* The selection is one of the graph on display: selectedNode is a node of
\* graphData and nodeEdges is what a click on it in graphData yields.
SelectionOfGraph(graph) ==
    /\ \E n \in 1..Len(graph.nodes) : graph.nodes[n] = selectedNode
    /\ nodeEdges = NodeEdgeInfo(graph, selectedNode)

\* C11: a dataset load swaps graph and selection together: in no reachable
\* state is the graph on display that of the newly loaded dataset while the
\* selected node or its neighbourhood entries are still those of the graph
\* before it.
C11_SelectionSwappedWithGraph ==
    selectedNode # Null => SelectionOfGraph(graphData)

\* A text whose first line does not name every column of Columns: there is
\* no line of names, or a name is another than expected.
MalformedHeader(csv) ==
    csv = <<>> \/ \E c \in 1..Len(Columns) :
                     \A k \in 1..Len(csv[1]) : csv[1][k] # Columns[c]

\* C12: a load of a text with a missing or mismatched header fails: the
\* graph on display before it, nodes and edges, stays as it was and is not
\* replaced by one built from the malformed text.  (The claim adds that a
\* warning is surfaced; the load surfaces nothing on any path.)
C12_MalformedLoadKeepsGraph ==
    [][\A i \in 1..Len(inflight) :
          (/\ lastEvent'.op = "load"
           /\ inflight' = RemoveAt(inflight, i)
           /\ MalformedHeader(inflight[i].data))
          => graphData' = graphData]_vars

(***************************************************************************)
(* Properties of the description, under SpecFn.                            *)
(***************************************************************************)
DescriptionReturned == call.fn = "generateEnhancedDescription" /\ ret.done

\* The category an entry counts under, an entry without one under Other.
LabelOf(entry) ==
    IF entry.otherNodeCategory = Undefined \/ entry.otherNodeCategory = <<>>
    THEN <<"Other">>
    ELSE entry.otherNodeCategory

LabelsOf(entries) == {LabelOf(entries[k]) : k \in 1..Len(entries)}

CountOf(entries, c) == Cardinality({k \in 1..Len(entries) : LabelOf(entries[k]) = c})

FirstSeen(entries, c) ==
    CHOOSE k \in 1..Len(entries) :
        LabelOf(entries[k]) = c /\ \A j \in 1..(k - 1) : LabelOf(entries[j]) # c

\* The entries in the order: the Outgoing ones, then the Incoming ones.
OutgoingFirst(entries) ==
    SelectSeq(entries, LAMBDA e : e.direction = "to")
    \o SelectSeq(entries, LAMBDA e : e.direction = "from")

\* summary lists the first three, or all, of the categories of entries in
\* the order Before, each with its count.
ListsTopThree(summary, entries, Before(_, _)) ==
    LET cats == LabelsOf(entries)
        listed == {summary[k].cat : k \in 1..Len(summary)}
    IN  /\ Len(summary) = IF Cardinality(cats) < 3 THEN Cardinality(cats) ELSE 3
        /\ \A k \in 1..Len(summary) :
              /\ summary[k].cat \in cats
              /\ summary[k].count = CountOf(entries, summary[k].cat)
        /\ \A k, l \in 1..Len(summary) : k < l => Before(summary[k].cat, summary[l].cat)
        /\ \A c \in cats \ listed : \A k \in 1..Len(summary) : Before(summary[k].cat, c)

IsIndexName(c) == IsNumeral(c) /\ (Len(c) = 1 \/ c[1] # "0")

C14_NoSummaryWithoutCategories ==
    (/\ DescriptionReturned
     /\ call.arg.nodeEdges # <<>>
     /\ \A k \in 1..Len(call.arg.nodeEdges) :
           call.arg.nodeEdges[k].otherNodeCategory \in {Undefined, <<>>})
    => ~ret.value.hasSummary

\* C14 as amended: with such a neighbourhood the summary lists the one
\* category Other, with the number of entries of the neighbourhood.
C14_SummaryOfOtherOnly ==
    (/\ DescriptionReturned
     /\ call.arg.nodeEdges # <<>>
     /\ \A k \in 1..Len(call.arg.nodeEdges) :
           call.arg.nodeEdges[k].otherNodeCategory \in {Undefined, <<>>})
    => /\ ret.value.hasSummary
       /\ ret.value.summary =
              <<[cat |-> <<"Other">>, count |-> Len(call.arg.nodeEdges)]>>

\* A description of a neighbourhood of several entries, some without node
\* object and some with an empty category, in both directions.
C14_Witness ==
    /\ DescriptionReturned
    /\ LET entries == call.arg.nodeEdges
       IN  /\ \A k \in 1..Len(entries) :
                 entries[k].otherNodeCategory \in {Undefined, <<>>}
           /\ \E k, l \in 1..Len(entries) :
                 /\ entries[k].otherNodeCategory = Undefined
                 /\ entries[l].otherNodeCategory = <<>>
                 /\ entries[k].direction # entries[l].direction
    /\ ret.value.hasSummary

\* C15: the node ids of a built graph are pairwise distinct: for rows of the
\* same serial the graph holds one node, with the fields of the last of
\* them.
C15_NodeIdsDistinct ==
    (call.fn = "loadCSVData" /\ ret.done) =>
        LET data == call.arg
            nodes == ret.value.nodes
        IN  /\ \A i, j \in 1..Len(nodes) : i # j => nodes[i].id # nodes[j].id
            /\ \A r \in 1..Len(data) :
                  (\A q \in (r + 1)..Len(data) : data[q].Serial # data[r].Serial)
                  => \E n \in 1..Len(nodes) :
                        /\ nodes[n].id = data[r].Serial
                        /\ nodes[n].name = data[r].Actor
                        /\ nodes[n].category = data[r].Category

\* C16: for every friendly id (1..17 and 33) and every adversary id (18..32)
\* the lightness of the colour getNodeColor gives is a percentage from 30 to
\* 75.
C16_LightnessInRange ==
    (call.fn = "getNodeColor" /\ ret.done) =>
        \A i \in 1..33 :
            call.arg = ToStr(i) =>
                /\ ret.value.kind = "hsl"
                /\ ret.value.lightness >= 30
                /\ ret.value.lightness <= 75

\* The text of the source requested last: the uploaded file, or the default.
RequestedSource == IF uploadedFile = Null THEN DefaultCsv ELSE uploadedFile.data

\* C17: once every pending read and fetch has called back, the graph on
\* display is the one built from the source requested last, in whatever
\* order the callbacks came.
C17_LastRequestedSourceShown ==
    inflight = <<>> =>
        \E strict \in BOOLEAN :
            graphData = EngineResolve(loadCSVData(PapaParse(RequestedSource)), strict)

\* C18: whenever no node is selected the neighbourhood list is empty.
C18_NoSelectionNoEdges == selectedNode = Null => nodeEdges = <<>>

\* Nothing is selected after a reset to the default, with a graph with
\* edges on display and the default being fetched again.
C18_Witness ==
    /\ lastEvent.op = "reset"
    /\ selectedNode = Null
    /\ nodeEdges = <<>>
    /\ graphData.links # <<>>
    /\ inflight # <<>>

\* C20: a rejected upload, no file chosen or a file of another type than
\* text/csv, changes nothing: the uploaded file, the graph, the selected
\* node and the neighbourhood stay as they were, and no load is started.
C20_RejectedUploadChangesNothing ==
    [][lastEvent'.op = "uploadRejected" =>
          /\ uploadedFile' = uploadedFile
          /\ graphData' = graphData
          /\ selectedNode' = selectedNode
          /\ nodeEdges' = nodeEdges
          /\ inflight' = inflight]_vars

\* An upload was rejected with a node selected, its neighbourhood listed,
\* an uploaded file as the source and no load pending.
C20_Witness ==
    /\ lastEvent.op = "uploadRejected"
    /\ selectedNode # Null
    /\ nodeEdges # <<>>
    /\ uploadedFile # Null
    /\ inflight = <<>>

\* C19: the interval of the pulse animation runs exactly when a node is
\* selected: there is at most one interval at any time, it is the one set
\* for the node now selected (the interval of a selection before it is
\* cleared), there is none when nothing is selected, and the counter does
\* not tick then.
C19_PulseTimerWhileSelected ==
    /\ [](/\ Len(intervals) <= 1
          /\ selectedNode = Null <=> intervals = <<>>
          /\ selectedNode # Null => intervals = <<selectedNode>>)
    /\ [][tick' # tick => selectedNode # Null]_vars

\* A node of an uploaded graph is selected by a click, the interval set for
\* it is the only one, and the counter has ticked.
C19_Witness ==
    /\ lastEvent.op = "nodeClick"
    /\ selectedNode # Null
    /\ intervals = <<selectedNode>>
    /\ tick = MaxTick
    /\ uploadedFile # Null

====
